---- MODULE Spec2Model ----
(***************************************************************************)
(* State-machine model of the O-1A visa assessment client.                 *)
(*                                                                         *)
(* The UploadForm component (upload-form.tsx) owns five pieces of React    *)
(* state: file, apiUrl, isLoading, error and result.  Its two handlers,    *)
(* handleFileChange and handleSubmit, are modelled here.  handleSubmit is  *)
(* an async function with two suspension points (await fetch, await        *)
(* response.json()); every synchronous segment between suspension points   *)
(* is one atomic action, because the browser runs handlers to completion   *)
(* on a single thread.                                                     *)
(*                                                                         *)
(* Strings that the code inspects character by character (file names) are  *)
(* sequences of one-character strings.                                     *)
(*                                                                         *)
(* The components that UploadForm renders (ProcessingNotification,         *)
(* ResumeAnalyzerAnimation, ResumePreview with PDFViewer) are modelled     *)
(* with React's scheduling: a handler, timer callback or promise           *)
(* continuation runs with the render and commit it causes; the passive     *)
(* effects (useEffect) of a commit, cleanups first, run in a later step    *)
(* and always before the next render of an event; a timer callback can     *)
(* run between a commit and the effects of that commit.                     *)
(*                                                                         *)
(* Spec is the form alone; SpecProgress adds the progress simulator;       *)
(* SpecPage runs every component; SpecPreview the previews over every      *)
(* document type and text; SpecGeometry the PDF highlight over iframe      *)
(* sizes and random values.                                                *)
(***************************************************************************)
EXTENDS Integers, Sequences, FiniteSets, TLC

\* UploadForm: React state, outstanding requests and history.
VARIABLES file, apiUrl, isLoading, error, result, inflight, issued, lastOp

\* ProcessingNotification: React state (progress, stage), the live interval
\* timers, the cleanup returned by the last run of the visibility effect,
\* the effects scheduled by the last commit, and the number of ticks of the
\* current timer (history).
VARIABLES progress, stage, progressTimers, pnCleanup, pnPending, ticks

\* ResumeAnalyzerAnimation: React state (currentCriteria), live interval
\* timers, the cleanup of the last effect run, whether the effect is scheduled.
VARIABLES currentCriteria, animTimers, animCleanup, animPending

\* ResumePreview (mounted while file is set): React state (content, isPdf,
\* isDocx, highlightPosition), outstanding FileReader reads, live interval
\* timers (each with the currentIndex and paragraphs of its closure), the
\* cleanup of the last run of the highlight effect, the scheduled effects.
VARIABLES content, isPdf, isDocx, textHighlight, readers,
          textTimers, rpCleanup, rpPending

\* PDFViewer (mounted while ResumePreview renders it): React state (pdfUrl,
\* loading, highlightPosition), live interval timers, the cleanup of the
\* last run of the highlight effect, the scheduled effects; and the size
\* (clientWidth, clientHeight) the iframe had when a tick last measured it.
VARIABLES pdfUrl, pvLoading, pdfHighlight, pdfTimers, pvCleanup, pvPending,
          measured

\* Whether the page (and with it every component) is mounted.
VARIABLE mounted

formVars == <<file, apiUrl, isLoading, error, result, inflight, issued, lastOp>>

pnVars == <<progress, stage, progressTimers, pnCleanup, pnPending, ticks>>

animVars == <<currentCriteria, animTimers, animCleanup, animPending>>

rpVars == <<content, isPdf, isDocx, textHighlight, readers,
            textTimers, rpCleanup, rpPending>>

pvVars == <<pdfUrl, pvLoading, pdfHighlight, pdfTimers, pvCleanup, pvPending,
            measured>>

vars == <<formVars, pnVars, animVars, rpVars, pvVars, mounted>>

\* Cap on the number of analyze requests one behaviour issues.
MaxSubmits == 3

\* Cap on the number of ticks of one progress timer.
MaxTicks == 242

\* Cap on the number of lines of a text file.
MaxLines == 3

\* Cap on the number of ticks of one highlight or animation timer.
MaxHighlightTicks == 7

\* Cap on the number of FileReader reads outstanding at once.
MaxReaders == 2

\* Math.random() takes the values 0/RandomSteps .. (RandomSteps-1)/RandomSteps.
RandomSteps == 4

\* JavaScript null.
Null == [null |-> TRUE]

(***************************************************************************)
(* File names.                                                             *)
(***************************************************************************)

\* "cv.pdf"
NamePdf == <<"c", "v", ".", "p", "d", "f">>
\* "cv.PDF"
NameUpperPdf == <<"c", "v", ".", "P", "D", "F">>
\* "cv.docx"
NameDocx == <<"c", "v", ".", "d", "o", "c", "x">>
\* "a.b.txt"
NameTwoDots == <<"a", ".", "b", ".", "t", "x", "t">>
\* "pdf" (no dot at all)
NameNoDot == <<"p", "d", "f">>
\* "cv.exe"
NameExe == <<"c", "v", ".", "e", "x", "e">>
\* "cv." (empty text after the dot)
NameTrailingDot == <<"c", "v", ".">>
\* "a.pdf.x" (an accepted extension that is not the last one)
NameInnerPdf == <<"a", ".", "p", "d", "f", ".", "x">>

\* The files the user can pick in the file input.
CandidateNames ==
    {NamePdf, NameUpperPdf, NameDocx, NameTwoDots, NameNoDot,
     NameExe, NameTrailingDot, NameInnerPdf}

\* A File object; only its name is inspected by the client.
File(n) == [name |-> n]

\* String.prototype.toLowerCase on one character.
LowerChar(c) ==
    CASE c = "P" -> "p"
      [] c = "D" -> "d"
      [] c = "F" -> "f"
      [] OTHER -> c

\* String.prototype.toLowerCase.
ToLowerCase(s) == [i \in 1..Len(s) |-> LowerChar(s[i])]

RECURSIVE SplitFrom(_, _, _)
\* Segments of s from position i on, cur being the segment under construction.
SplitFrom(s, i, cur) ==
    IF i > Len(s) THEN <<cur>>
    ELSE IF s[i] = "." THEN <<cur>> \o SplitFrom(s, i + 1, <<>>)
    ELSE SplitFrom(s, i + 1, Append(cur, s[i]))

\* String.prototype.split(".")
Split(s) == SplitFrom(s, 1, <<>>)

\* Array.prototype.pop: the last element.
Pop(a) == a[Len(a)]

\* selectedFile.name.split(".").pop()?.toLowerCase()
FileExt(n) == ToLowerCase(Pop(Split(n)))

\* ["pdf", "docx", "txt"]
AllowedExts == {<<"p", "d", "f">>, <<"d", "o", "c", "x">>, <<"t", "x", "t">>}

\* The negation of: !fileExt || !["pdf", "docx", "txt"].includes(fileExt)
Accepted(n) == FileExt(n) # <<>> /\ FileExt(n) \in AllowedExts

(***************************************************************************)
(* Error messages, base URLs, responses.                                   *)
(***************************************************************************)

\* A non-null value of the error state.
Err(text) == [text |-> text]

UnsupportedMsg == "Unsupported file format. Please upload a PDF, DOCX, or TXT file."

NoFileMsg == "Please select a file to upload"

UnknownMsg == "An unknown error occurred"

\* String(response.status)
StatusText(status) ==
    CASE status = 200 -> "200"
      [] status = 404 -> "404"
      [] status = 500 -> "500"

\* `API request failed with status ${response.status}`
StatusMsg(status) == "API request failed with status " \o StatusText(status)

\* Values of the API URL text input.
BaseUrls == {"https://09c9-38-242-232-192.ngrok-free.app", "http://localhost:8000"}

\* HTTP statuses the server may answer with.
Statuses == {200, 404, 500}

\* Response.ok
Ok(status) == status >= 200 /\ status <= 299

\* Values a rejected promise (fetch or response.json) can carry.
Thrown ==
    {[isError |-> TRUE, message |-> "Failed to fetch"],
     [isError |-> TRUE, message |-> "Unexpected token < in JSON"],
     [isError |-> FALSE, message |-> ""]}

\* err instanceof Error ? err.message : "An unknown error occurred"
ErrText(err) == IF err.isError THEN err.message ELSE UnknownMsg

\* Parsed JSON bodies: an object with a status, the empty object {} and the
\* JSON value null; `of` records the file the server computed the body for.
Bodies(n) ==
    {[status |-> s, of |-> n] : s \in {"success", "failure"}}
        \cup {[of |-> n], Null}

\* obj.status, "undefined" when the object has no such property.
Status(obj) == IF "status" \in DOMAIN obj THEN obj.status ELSE "undefined"

\* Faulty variant of Request: the file is appended under another field name.
Request_WrongField(f, base) ==
    [field |-> "file", file |-> f, method |-> "POST",
     url |-> <<base, "/api/analyze">>, pc |-> "fetch"]

\* The request built by handleSubmit: FormData field, method and URL.
Request(f, base) ==
    [field |-> "cv_file", file |-> f, method |-> "POST",
     url |-> <<base, "/api/analyze">>, pc |-> "fetch"]

(***************************************************************************)
(* Initial state: the useState initialisers.                               *)
(***************************************************************************)

FormInit ==
    /\ file = Null
    /\ apiUrl = "https://09c9-38-242-232-192.ngrok-free.app"
    /\ isLoading = FALSE
    /\ error = Null
    /\ result = Null
    /\ inflight = <<>>
    /\ issued = 0
    /\ lastOp = [op |-> "init"]

(***************************************************************************)
(* ProcessingNotification (processing-notification.tsx).                   *)
(*                                                                         *)
(* progress is a JavaScript number.  It is only ever 0, 100, or the result *)
(* of adding incrementAmount = (500 / 120000) * 100 = 0.4166666666666667   *)
(* n times to 0, so it is held as the exact value 5n/12 (q, in twelfths of *)
(* a percent) together with the sign r of the IEEE-754 double rounding     *)
(* error of the n-fold sum (the double is above, equal to or below 5n/12). *)
(***************************************************************************)

\* const totalDuration = 120 * 1000
TotalDuration == 120000

\* const interval = 500
Interval == 500

\* incrementAmount = (interval / totalDuration) * 100, in twelfths of a percent.
IncrementAmount == (Interval * 100 * 12) \div TotalDuration

\* Sign of (double sum of n increments) - 5n/12, for n = 1..240.
RoundingSign ==
    <<
        1,  1,  0,  1,  1,  0, -1, -1, -1, -1, -1,  0,  1,  1,  1,  1,  1,  1,  1,  1,
        1,  1,  1,  0, -1, -1, -1, -1, -1, -1, -1, -1, -1, -1, -1, -1, -1, -1, -1, -1,
       -1, -1, -1, -1,  0,  1,  1,  1,  1,  1,  1,  1,  1,  1,  1,  1,  1,  1,  1,  1,
        1,  1,  1,  1,  1,  1,  1,  1,  1,  1,  1,  1,  1,  1,  1,  1,  1,  1,  1,  1,
        1,  1,  1,  1,  1,  1,  1,  1,  1,  1,  1,  1,  0, -1, -1, -1, -1, -1, -1, -1,
       -1, -1, -1, -1, -1, -1, -1, -1, -1, -1, -1, -1, -1, -1, -1, -1, -1, -1, -1, -1,
       -1, -1, -1, -1, -1, -1, -1, -1, -1, -1, -1, -1, -1, -1, -1, -1, -1, -1, -1, -1,
       -1, -1, -1, -1, -1, -1, -1, -1, -1, -1, -1, -1, -1, -1, -1, -1, -1, -1, -1, -1,
       -1, -1, -1, -1, -1, -1, -1, -1, -1, -1, -1, -1, -1, -1, -1, -1, -1, -1, -1, -1,
       -1, -1,  0,  1,  1,  1,  1,  1,  1,  1,  1,  1,  1,  1,  1,  1,  1,  1,  1,  1,
        1,  1,  1,  1,  1,  1,  1,  1,  1,  1,  1,  1,  1,  1,  1,  1,  1,  1,  1,  1,
        1,  1,  1,  1,  1,  1,  1,  1,  1,  1,  1,  1,  1,  1,  1,  1,  1,  1,  1,  1
    >>

\* The number 0.
Zero == [q |-> 0, r |-> 0]

\* The number 100.
Hundred == [q |-> 1200, r |-> 0]

\* The whole number pct as a progress value.
Percent(pct) == [q |-> 12 * pct, r |-> 0]

\* a > b on progress values.
Gt(a, b) == a.q > b.q \/ (a.q = b.q /\ a.r > b.r)

\* prev + incrementAmount in double arithmetic (100 + incrementAmount rounds
\* above the exact sum).
Plus(prev) ==
    IF prev = Hundred
    THEN [q |-> prev.q + IncrementAmount, r |-> 1]
    ELSE LET n == (prev.q \div IncrementAmount) + 1
         IN  [q |-> prev.q + IncrementAmount,
              r |-> IF n <= Len(RoundingSign) THEN RoundingSign[n] ELSE 1]

\* Math.min(a, b)
MathMin(a, b) == IF Gt(a, b) THEN b ELSE a

\* Faulty variant of Advance: the sum is not clamped.
Advance_NoClamp(prev) == Plus(prev)

\* Line 34: the updater (prev) => Math.min(prev + incrementAmount, 100)
Advance(prev) == MathMin(Plus(prev), Hundred)

\* Faulty variant of StageAfter: the thresholds are inclusive.
StageAfter_Inclusive(prog, cur) ==
    IF ~Gt(Percent(75), prog) THEN 2
    ELSE IF ~Gt(Percent(30), prog) THEN 1
    ELSE cur

\* Faulty variant of StageAfter: the two stage indices are swapped.
StageAfter_Swapped(prog, cur) ==
    IF Gt(prog, Percent(75)) THEN 1
    ELSE IF Gt(prog, Percent(30)) THEN 2
    ELSE cur

\* Lines 41-45: the stage the progress effect stores, cur being the stage
\* it leaves alone when neither threshold is passed.
StageAfter(prog, cur) ==
    IF Gt(prog, Percent(75)) THEN 2
    ELSE IF Gt(prog, Percent(30)) THEN 1
    ELSE cur

\* useState(0) twice; on mount the visibility effect takes its !isVisible
\* branch (no timer, no cleanup) and the progress effect changes nothing.
NotificationInit ==
    /\ progress = Zero
    /\ stage = 0
    /\ progressTimers = {}
    /\ pnCleanup = {}
    /\ pnPending = {}
    /\ ticks = 0

(***************************************************************************)
(* ResumeAnalyzerAnimation (resume-analyzer-animation.tsx).                *)
(***************************************************************************)

\* criteria.length: the six entries of lines 14-21.
CriteriaLength == 6

\* useState(0); on mount the effect returns early (isVisible is false).
AnimationInit ==
    /\ currentCriteria = 0
    /\ animTimers = {}
    /\ animCleanup = {}
    /\ animPending = FALSE

(***************************************************************************)
(* ResumePreview and PDFViewer.                                            *)
(*                                                                         *)
(* A text is held as its number of lines together with its characters      *)
(* (abstracted to a tag), so that two reads can yield equal or different    *)
(* strings; "" has no lines.  A timer is a record: the episode (issued) in  *)
(* which it was started, a handle, and for a text timer the currentIndex   *)
(* and paragraphs.length of its closure and the number k of its ticks.     *)
(***************************************************************************)

\* useState<string>("")
EmptyContent == [lines |-> 0, text |-> ""]

\* setContent("[Word Document Content]")
DocxContent == [lines |-> 1, text |-> "[Word Document Content]"]

\* The text of a file of n lines (n - 1 newline characters).
TextContent(n) == [lines |-> n, text |-> "text"]

\* content.split("\n").length: "" splits into one (empty) string.
SplitLines(c) == IF c.lines = 0 THEN 1 ELSE c.lines

\* !content
IsEmptyString(c) == c = EmptyContent

\* ResumePreview: useState({ top: 0, width: 0, height: 0 })
InitialTextHighlight == [top |-> 0, width |-> 0, height |-> 0]

\* Lengths are held in units of 1/RandomSteps of a pixel, which makes every
\* product with a value of Math.random() an integer.
Px(n) == n * RandomSteps

\* PDFViewer: useState({ top: 0, left: 0, width: 100, height: 20 })
InitialPdfHighlight ==
    [top |-> Px(0), left |-> Px(0), width |-> Px(100), height |-> Px(20)]

\* The state of a ResumePreview that is not mounted, and of a fresh one.
PreviewInit ==
    /\ content = EmptyContent
    /\ isPdf = FALSE
    /\ isDocx = FALSE
    /\ textHighlight = InitialTextHighlight
    /\ readers = 0
    /\ textTimers = {}
    /\ rpCleanup = {}
    /\ rpPending = {}

\* The state of a PDFViewer that is not mounted, and of a fresh one.
ViewerInit ==
    /\ pdfUrl = Null
    /\ pvLoading = TRUE
    /\ pdfHighlight = InitialPdfHighlight
    /\ pdfTimers = {}
    /\ pvCleanup = {}
    /\ pvPending = {}
    /\ measured = Null

Init ==
    /\ FormInit
    /\ NotificationInit
    /\ AnimationInit
    /\ PreviewInit
    /\ ViewerInit
    /\ mounted = TRUE

(***************************************************************************)
(* handleFileChange: the change event of the file input.                   *)
(***************************************************************************)

\* Faulty variant of RejectFile: the previously selected file is kept.
RejectFile_KeepFile ==
    /\ error' = Err(UnsupportedMsg)
    /\ UNCHANGED <<file, result>>

\* Lines 29-33: the rejection branch.
RejectFile ==
    /\ error' = Err(UnsupportedMsg)
    /\ file' = Null
    /\ UNCHANGED result

\* Faulty variant of AcceptFile: the previous result is left displayed.
AcceptFile_KeepResult(n) ==
    /\ file' = File(n)
    /\ error' = Null
    /\ UNCHANGED result

\* Lines 35-37: the acceptance branch.
AcceptFile(n) ==
    /\ file' = File(n)
    /\ error' = Null
    /\ result' = Null

\* The handler is not guarded by isLoading: the file input stays enabled
\* while a request is outstanding.  A change event with an empty FileList
\* (line 25) changes nothing and is not modelled as a step.
handleFileChange(n) ==
    /\ IF Accepted(n)
         THEN AcceptFile(n) /\ lastOp' = [op |-> "selectAccepted", name |-> n]
         ELSE RejectFile /\ lastOp' = [op |-> "selectRejected", name |-> n]
    /\ UNCHANGED <<apiUrl, isLoading, inflight, issued>>

\* The onChange handler of the API URL input (line 96).
setApiUrl(u) ==
    /\ apiUrl' = u
    /\ lastOp' = [op |-> "setApiUrl"]
    /\ UNCHANGED <<file, isLoading, error, result, inflight, issued>>

(***************************************************************************)
(* handleSubmit, first segment: from the submit event to `await fetch`.    *)
(***************************************************************************)

\* Faulty variant of SubmitEnabled: the button is never disabled.
SubmitEnabled_Always == TRUE

\* <Button type="submit" disabled={isLoading}>: a form whose submit button
\* is disabled dispatches no submit event (neither by click nor by Enter).
SubmitEnabled == ~isLoading

\* Faulty variant of SubmitNoFile: the displayed result is cleared as well.
SubmitNoFile_ClearsResult ==
    /\ error' = Err(NoFileMsg)
    /\ result' = Null
    /\ UNCHANGED <<file, isLoading, inflight, issued>>

\* Lines 44-47: no file selected.
SubmitNoFile ==
    /\ error' = Err(NoFileMsg)
    /\ UNCHANGED <<file, isLoading, result, inflight, issued>>

\* Faulty variant of SubmitFile: isLoading is not set.
SubmitFile_NoLoading ==
    /\ error' = Null
    /\ result' = Null
    /\ inflight' = Append(inflight, Request(file, apiUrl))
    /\ issued' = issued + 1
    /\ UNCHANGED <<file, isLoading>>

\* Faulty variant of SubmitFile: the previous result is not cleared.
SubmitFile_KeepResult ==
    /\ isLoading' = TRUE
    /\ error' = Null
    /\ inflight' = Append(inflight, Request(file, apiUrl))
    /\ issued' = issued + 1
    /\ UNCHANGED <<file, result>>

\* Lines 49-60: reset the state and send the request.
SubmitFile ==
    /\ isLoading' = TRUE
    /\ error' = Null
    /\ result' = Null
    /\ inflight' = Append(inflight, Request(file, apiUrl))
    /\ issued' = issued + 1
    /\ UNCHANGED file

handleSubmit ==
    /\ SubmitEnabled
    /\ IF file = Null
         THEN SubmitNoFile /\ lastOp' = [op |-> "submitNoFile"]
         ELSE issued < MaxSubmits /\ SubmitFile /\ lastOp' = [op |-> "submit"]
    /\ UNCHANGED apiUrl

(***************************************************************************)
(* handleSubmit, continuations: the segments that run when the promise of  *)
(* fetch, then the promise of response.json(), settles.                    *)
(***************************************************************************)

\* s without its i-th element.
Remove(s, i) == SubSeq(s, 1, i - 1) \o SubSeq(s, i + 1, Len(s))

\* Lines 68-69: catch (err) { setError(...) }
Catch(err) == error' = Err(ErrText(err))

\* Faulty variant of Finally: isLoading is not reset.
Finally_Skip == UNCHANGED isLoading

\* Lines 70-72: finally { setIsLoading(false) }
Finally == isLoading' = FALSE

\* Faulty variant of StoreResult: the parsed body is dropped.
StoreResult_Drop(data) == result' = Null

\* Line 67: setResult(data)
StoreResult(data) == result' = data

\* Line 63: throw new Error(`API request failed with status ${response.status}`)
StatusError(status) == [isError |-> TRUE, message |-> StatusMsg(status)]

\* fetch resolved with a response (lines 57-66): a non-ok status throws into
\* the catch block, an ok status moves on to `await response.json()`.
FetchResolved(i, status) ==
    /\ i \in 1..Len(inflight)
    /\ inflight[i].pc = "fetch"
    /\ IF Ok(status)
         THEN /\ inflight' = [inflight EXCEPT ![i].pc = "json"]
              /\ lastOp' = [op |-> "responseOk"]
              /\ UNCHANGED <<isLoading, error>>
         ELSE /\ Catch(StatusError(status))
              /\ Finally
              /\ inflight' = Remove(inflight, i)
              /\ lastOp' = [op |-> "requestFailed"]
    /\ UNCHANGED <<file, apiUrl, result, issued>>

\* fetch rejected (transport failure): catch, then finally.
FetchRejected(i, err) ==
    /\ i \in 1..Len(inflight)
    /\ inflight[i].pc = "fetch"
    /\ Catch(err)
    /\ Finally
    /\ inflight' = Remove(inflight, i)
    /\ lastOp' = [op |-> "networkError"]
    /\ UNCHANGED <<file, apiUrl, result, issued>>

\* response.json() resolved with the parsed body: lines 66-67, then finally.
JsonResolved(i, data) ==
    /\ i \in 1..Len(inflight)
    /\ inflight[i].pc = "json"
    /\ StoreResult(data)
    /\ Finally
    /\ inflight' = Remove(inflight, i)
    /\ lastOp' = [op |-> "success", data |-> data]
    /\ UNCHANGED <<file, apiUrl, error, issued>>

\* response.json() rejected (malformed body): catch, then finally.
JsonRejected(i, err) ==
    /\ i \in 1..Len(inflight)
    /\ inflight[i].pc = "json"
    /\ Catch(err)
    /\ Finally
    /\ inflight' = Remove(inflight, i)
    /\ lastOp' = [op |-> "parseError"]
    /\ UNCHANGED <<file, apiUrl, result, issued>>

(***************************************************************************)
(* What UploadForm renders from its state.                                 *)
(***************************************************************************)

\* JavaScript truthiness of the values the state variables can hold: null
\* is falsy, objects and the (non-empty) message strings are truthy.
Truthy(v) == v # Null

\* {error && <Alert variant="destructive">...}
AlertShown == Truthy(error)

\* {result && <AssessmentResult result={result} />}
AssessmentShown == Truthy(result)

\* AssessmentResult: if (!result || result.status !== "success") it renders
\* the "Analysis Failed" card.
FailureView(r) == ~Truthy(r) \/ Status(r) # "success"

\* The "Analysis Failed" card is on screen.
FailureViewShown == AssessmentShown /\ FailureView(result)

(***************************************************************************)
(* Specification.                                                          *)
(***************************************************************************)

\* The components below UploadForm, left out of the form's own state machine.
viewVars == <<pnVars, animVars, rpVars, pvVars, mounted>>

Next ==
    \/ \E n \in CandidateNames : handleFileChange(n) /\ UNCHANGED viewVars
    \/ \E u \in BaseUrls : setApiUrl(u) /\ UNCHANGED viewVars
    \/ handleSubmit /\ UNCHANGED viewVars
    \/ \E i \in 1..Len(inflight), status \in Statuses :
          FetchResolved(i, status) /\ UNCHANGED viewVars
    \/ \E i \in 1..Len(inflight), err \in Thrown :
          FetchRejected(i, err) /\ UNCHANGED viewVars
    \/ \E i \in 1..Len(inflight) :
          \E data \in Bodies(inflight[i].file.name) :
             JsonResolved(i, data) /\ UNCHANGED viewVars
    \/ \E i \in 1..Len(inflight), err \in Thrown :
          JsonRejected(i, err) /\ UNCHANGED viewVars

Spec == Init /\ [][Next]_vars

\* The continuations of handleSubmit: the promise of fetch or of
\* response.json() of an outstanding request settles and the code after the
\* await runs.
Settle ==
    \/ \E i \in 1..Len(inflight), status \in Statuses :
          FetchResolved(i, status) /\ UNCHANGED viewVars
    \/ \E i \in 1..Len(inflight), err \in Thrown :
          FetchRejected(i, err) /\ UNCHANGED viewVars
    \/ \E i \in 1..Len(inflight) :
          \E data \in Bodies(inflight[i].file.name) :
             JsonResolved(i, data) /\ UNCHANGED viewVars
    \/ \E i \in 1..Len(inflight), err \in Thrown :
          JsonRejected(i, err) /\ UNCHANGED viewVars

\* The form with a network whose requests complete: an awaited promise
\* that can settle does settle, and the JavaScript event loop then runs the
\* continuation.
SpecFair == Init /\ [][Next]_vars /\ WF_vars(Settle)

(***************************************************************************)
(* ProcessingNotification below UploadForm: <ProcessingNotification        *)
(* isVisible={isLoading} /> is always mounted.                             *)
(*                                                                         *)
(* React commits a render atomically with the handler, timer callback or   *)
(* promise continuation that caused it; the passive effects (useEffect)    *)
(* whose dependencies changed run later, in a step of their own, and       *)
(* always before the next render starts.  pnPending names the effects the  *)
(* last commit scheduled.                                                  *)
(***************************************************************************)

\* The commit of ProcessingNotification after a step of UploadForm: the
\* visibility effect (deps [isVisible]) is scheduled when the prop changed.
NotificationCommit ==
    /\ pnPending' = IF isLoading' # isLoading
                     THEN pnPending \cup {"visible"}
                     ELSE pnPending
    /\ UNCHANGED <<progress, stage, progressTimers, pnCleanup, ticks>>

\* A step A of UploadForm on the mounted page; the effects of the previous
\* commit have run before the render it causes.
FormEvent(A) ==
    /\ mounted
    /\ pnPending = {}
    /\ A
    /\ NotificationCommit
    /\ UNCHANGED <<animVars, rpVars, pvVars, mounted>>

\* Faulty variant of ClearInterval: the timer is left running.
ClearInterval_Leak(timers, handles) == timers

\* Line 37: clearInterval(timer), for the handles the cleanup closes over.
ClearInterval(timers, handles) == timers \ handles

\* Faulty variant of ResetNotification: the stage is not reset.
ResetNotification_ProgressOnly ==
    /\ progress' = Zero
    /\ UNCHANGED stage

\* Lines 23-27: setProgress(0); setStage(0)
ResetNotification ==
    /\ progress' = Zero
    /\ stage' = 0

\* Lines 22-38: the visibility effect.  The cleanup of its previous run
\* comes first; then it either resets the state (and returns no cleanup) or
\* starts the interval timer (and returns its cleanup).  The re-render
\* after a reset schedules the progress effect when progress changed.
RunVisibilityEffect ==
    IF ~isLoading
    THEN /\ ResetNotification
         /\ progressTimers' = ClearInterval(progressTimers, pnCleanup)
         /\ pnCleanup' = {}
         /\ pnPending' = IF progress # Zero THEN {"progress"} ELSE {}
    ELSE /\ progressTimers' =
               ClearInterval(progressTimers, pnCleanup) \cup {issued}
         /\ pnCleanup' = {issued}
         /\ pnPending' = pnPending \ {"visible"}
         /\ UNCHANGED <<progress, stage>>

\* Lines 40-46: the progress effect.
RunProgressEffect ==
    /\ stage' = StageAfter(progress, stage)
    /\ pnPending' = pnPending \ {"progress"}
    /\ UNCHANGED <<progress, progressTimers, pnCleanup>>

\* The scheduled effects of ProcessingNotification run, in source order.
\* (Both are scheduled together only on mount, which Init has behind it.)
NotificationEffects ==
    IF "visible" \in pnPending THEN RunVisibilityEffect
    ELSE IF "progress" \in pnPending THEN RunProgressEffect
    ELSE UNCHANGED <<progress, stage, progressTimers, pnCleanup, pnPending>>

\* The tick count restarts with the timer that the visibility effect starts.
TicksAfterEffects ==
    IF "visible" \in pnPending /\ isLoading THEN 0 ELSE ticks

\* The passive effects of the last commit run.
FlushEffects ==
    /\ mounted
    /\ pnPending # {}
    /\ NotificationEffects
    /\ ticks' = TicksAfterEffects
    /\ UNCHANGED <<formVars, animVars, rpVars, pvVars, mounted>>

\* Lines 33-35: the state change of a tick of interval timer t, of at most
\* max ticks.  Its render first runs the effects still pending, so the tick
\* is taken once they have run.
TickProgress(t, max) ==
    /\ mounted
    /\ t \in progressTimers
    /\ pnPending = {}
    /\ ticks < max
    /\ progress' = Advance(progress)
    /\ pnPending' = IF progress' # progress THEN {"progress"} ELSE {}
    /\ ticks' = ticks + 1
    /\ UNCHANGED <<stage, progressTimers, pnCleanup>>

ProgressTick(t) ==
    /\ TickProgress(t, MaxTicks)
    /\ UNCHANGED <<formVars, animVars, rpVars, pvVars, mounted>>

\* A tick of timer t that fires after the commit that hid the notification
\* and before the cleanup of the visibility effect has run.  The updater it
\* queues is followed in the queue by the effect's setProgress(0), which
\* the render that the tick causes runs first: the render computes 0.
LateTickProgress(t, max) ==
    /\ mounted
    /\ t \in progressTimers
    /\ "visible" \in pnPending
    /\ ticks < max
    /\ RunVisibilityEffect
    /\ ticks' = ticks + 1

LateProgressTick(t) ==
    /\ LateTickProgress(t, MaxTicks)
    /\ UNCHANGED <<formVars, animVars, rpVars, pvVars, mounted>>

\* The page is left: every effect's cleanup runs, nothing is scheduled any more.
Unmount ==
    /\ mounted
    /\ mounted' = FALSE
    /\ progressTimers' = ClearInterval(progressTimers, pnCleanup)
    /\ pnCleanup' = {}
    /\ pnPending' = {}
    /\ UNCHANGED <<progress, stage, ticks, formVars>>
    /\ UNCHANGED <<animVars, rpVars, pvVars>>

\* The body of a successful analysis of file f.
SuccessBody(f) == [status |-> "success", of |-> f.name]

ProgressNext ==
    \/ FormEvent(handleFileChange(NamePdf))
    \/ FormEvent(handleSubmit)
    \/ \E status \in {200, 500} : FormEvent(FetchResolved(1, status))
    \/ \E i \in 1..Len(inflight) :
          FormEvent(JsonResolved(i, SuccessBody(inflight[i].file)))
    \/ FlushEffects
    \/ \E t \in progressTimers : ProgressTick(t)
    \/ \E t \in progressTimers : LateProgressTick(t)
    \/ Unmount

SpecProgress == Init /\ [][ProgressNext]_vars

(***************************************************************************)
(* Interval timers with a closure (the analyzer animation and the two      *)
(* preview highlighters).                                                  *)
(***************************************************************************)

\* The handle that setInterval returns: one that no live timer has.
NewHandle(timers) ==
    CHOOSE n \in 1..(Cardinality(timers) + 1) : \A t \in timers : t.id # n

\* Faulty variant of StopTimers: the timers are left running.
StopTimers_Leak(timers, handles) == timers

\* clearInterval(interval), for the handles the cleanup closes over.
StopTimers(timers, handles) == {t \in timers : t.id \notin handles}

\* The handles of a set of timers.
Handles(timers) == {t.id : t \in timers}

(***************************************************************************)
(* ResumeAnalyzerAnimation: the effect of lines 23-31 and its timer.       *)
(***************************************************************************)

\* The commit of a render of UploadForm: the effect is scheduled when
\* isVisible changed (criteria.length never does).
AnimationCommit ==
    /\ animPending' = (animPending \/ isLoading' # isLoading)
    /\ UNCHANGED <<currentCriteria, animTimers, animCleanup>>

\* Lines 23-31: the cleanup of the previous run, then the effect.
RunAnimationEffect ==
    LET stopped == StopTimers(animTimers, animCleanup)
        started == IF isLoading
                   THEN {[ep |-> issued, id |-> NewHandle(stopped)]}
                   ELSE {}
    IN  /\ animTimers' = stopped \cup started
        /\ animCleanup' = Handles(started)
        /\ animPending' = FALSE
        /\ UNCHANGED currentCriteria

AnimationEffects ==
    IF animPending THEN RunAnimationEffect ELSE UNCHANGED animVars

\* Faulty variant of NextCriteria: no wrap-around.
NextCriteria_NoWrap(prev) == prev + 1

\* Line 27: (prev + 1) % criteria.length
NextCriteria(prev) == (prev + 1) % CriteriaLength

\* Lines 26-28: a tick of timer t.  The effects do not touch
\* currentCriteria, so the tick does not wait for them.
AnimationTick(t) ==
    /\ mounted
    /\ t \in animTimers
    /\ currentCriteria' = NextCriteria(currentCriteria)
    /\ UNCHANGED <<animTimers, animCleanup, animPending>>
    /\ UNCHANGED <<formVars, pnVars, rpVars, pvVars, mounted>>

(***************************************************************************)
(* ResumePreview and PDFViewer: mounting, effects, timers.                 *)
(***************************************************************************)

\* part_001 line 134: {file && <ResumePreview .../>}
PreviewMounted == Truthy(file)

\* part_000 lines 171-173: if (isPdf) return <PDFViewer .../>
ViewerMounted == PreviewMounted /\ isPdf

\* part_000 lines 187-209: the card with the contentRef div is rendered.
TextSurface == PreviewMounted /\ ~isPdf /\ ~isDocx

\* part_001 line 228: the iframe is rendered.
IframePresent == ViewerMounted /\ ~pvLoading /\ Truthy(pdfUrl)

\* ResumePreview is unmounted (the cleanup of its highlight effect runs),
\* or a fresh one is mounted with the given effects scheduled: the state is
\* as useState initialises it.
FreshPreview(pending) ==
    /\ content' = EmptyContent
    /\ isPdf' = FALSE
    /\ isDocx' = FALSE
    /\ textHighlight' = InitialTextHighlight
    /\ readers' = 0
    /\ textTimers' = StopTimers(textTimers, rpCleanup)
    /\ rpCleanup' = {}
    /\ rpPending' = pending

\* The same for PDFViewer.
FreshViewer(pending) ==
    /\ pdfUrl' = Null
    /\ pvLoading' = TRUE
    /\ pdfHighlight' = InitialPdfHighlight
    /\ pdfTimers' = StopTimers(pdfTimers, pvCleanup)
    /\ pvCleanup' = {}
    /\ pvPending' = pending
    /\ measured' = Null

\* The effects whose dependencies changed in a commit of UploadForm: a
\* selection passes a new File object, isProcessing follows isLoading.
ChangedDeps(fileEffect) ==
    (IF lastOp'.op = "selectAccepted" THEN {fileEffect} ELSE {})
        \cup (IF isLoading' # isLoading THEN {"highlight"} ELSE {})

\* The commit of a render of UploadForm, for ResumePreview and PDFViewer:
\* unmounted when file is cleared (the cleanups stop the timers), mounted
\* when it is set (every effect runs after a mount), else re-rendered.
PreviewCommit ==
    IF ~Truthy(file')
    THEN FreshPreview({}) /\ FreshViewer({})
    ELSE IF ~Truthy(file)
    THEN FreshPreview({"file", "highlight"}) /\ FreshViewer({})
    ELSE /\ rpPending' = rpPending \cup ChangedDeps("file")
         /\ pvPending' = IF ViewerMounted
                          THEN pvPending \cup ChangedDeps("url")
                          ELSE pvPending
         /\ UNCHANGED <<content, isPdf, isDocx, textHighlight, readers,
                        textTimers, rpCleanup>>
         /\ UNCHANGED <<pdfUrl, pvLoading, pdfHighlight, pdfTimers, pvCleanup,
                        measured>>

\* part_001 lines 175-196: the cleanup of the previous run of PDFViewer's
\* highlight effect, then the effect; lines 162-172: the URL effect.
RunViewerEffects ==
    LET runUrl == "url" \in pvPending
        runHighlight == "highlight" \in pvPending
        stopped == IF runHighlight
                   THEN StopTimers(pdfTimers, pvCleanup)
                   ELSE pdfTimers
        started == IF runHighlight /\ isLoading
                   THEN {[ep |-> issued, id |-> NewHandle(stopped)]}
                   ELSE {}
    IN  /\ pdfUrl' = IF runUrl THEN [url |-> file.name] ELSE pdfUrl
        /\ pvLoading' = IF runUrl THEN FALSE ELSE pvLoading
        /\ pdfTimers' = stopped \cup started
        /\ pvCleanup' = IF runHighlight THEN Handles(started) ELSE pvCleanup
        /\ pvPending' = {}
        /\ UNCHANGED <<pdfHighlight, measured>>

\* Faulty variant of HighlightGuard: isProcessing is not looked at.
HighlightGuard_IgnoreProcessing(isProcessing, surface, c) ==
    surface /\ ~IsEmptyString(c)

\* part_000 lines 140-144: the highlight effect goes on when isProcessing,
\* contentRef.current and content are all truthy (the surface then holds
\* one paragraph per line, so paragraphs.length is not 0).
HighlightGuard(isProcessing, surface, c) ==
    isProcessing /\ surface /\ ~IsEmptyString(c)

\* part_000 lines 114-136 (the file effect) and 139-166 (the cleanup of the
\* previous run of the highlight effect, then the effect), followed by the
\* render of the state they set: that render mounts or unmounts PDFViewer
\* and schedules the highlight effect again when content changed.  Both
\* effects see the content, the isProcessing and the contentRef of the
\* commit that scheduled them.
RunPreviewEffects ==
    LET runFile == "file" \in rpPending
        runHighlight == "highlight" \in rpPending
        fileType == FileExt(file.name)
        isPdfSet == IF runFile THEN fileType = <<"p", "d", "f">> ELSE isPdf
        isDocxSet == IF runFile
                     THEN fileType = <<"d", "o", "c", "x">>
                     ELSE isDocx
        contentSet == IF runFile /\ fileType = <<"d", "o", "c", "x">>
                      THEN DocxContent
                      ELSE content
        stopped == IF runHighlight
                   THEN StopTimers(textTimers, rpCleanup)
                   ELSE textTimers
        started == IF runHighlight /\ HighlightGuard(isLoading, TextSurface, content)
                   THEN {[ep |-> issued, id |-> NewHandle(stopped),
                          currentIndex |-> 0, length |-> SplitLines(content),
                          k |-> 0]}
                   ELSE {}
    IN  /\ isPdf' = isPdfSet
        /\ isDocx' = isDocxSet
        /\ content' = contentSet
        /\ readers' = IF runFile /\ fileType = <<"t", "x", "t">>
                      THEN readers + 1
                      ELSE readers
        /\ textTimers' = stopped \cup started
        /\ rpCleanup' = IF runHighlight THEN Handles(started) ELSE rpCleanup
        /\ rpPending' = IF contentSet # content THEN {"highlight"} ELSE {}
        /\ UNCHANGED textHighlight
        /\ IF isPdfSet /\ ~isPdf THEN FreshViewer({"url", "highlight"})
           ELSE IF ~isPdfSet THEN FreshViewer({})
           ELSE RunViewerEffects

PreviewEffects ==
    IF rpPending = {} /\ pvPending = {}
    THEN UNCHANGED <<rpVars, pvVars>>
    ELSE RunPreviewEffects

\* part_000 lines 127-130: reader.onload of an outstanding read delivers
\* the text of the file; setContent(text || "").
ReaderLoaded(text) ==
    /\ readers > 0
    /\ readers' = readers - 1
    /\ content' = text
    /\ rpPending' = IF content' # content THEN {"highlight"} ELSE {}
    /\ UNCHANGED <<isPdf, isDocx, textHighlight, textTimers, rpCleanup>>

\* The geometry of paragraphs[i] (offsetTop and bounding rectangle), which
\* the layout determines: it is identified by the paragraph.
ParagraphRect(i) == [paragraph |-> i]

\* Faulty variant of WrapIndex: wraps one tick late.
WrapIndex_Late(currentIndex, length) ==
    IF currentIndex > length THEN 0 ELSE currentIndex

\* part_000 lines 148-150: if (currentIndex >= paragraphs.length) currentIndex = 0
WrapIndex(currentIndex, length) ==
    IF currentIndex >= length THEN 0 ELSE currentIndex

\* part_000 lines 147-162: a tick of text timer t, of at most max ticks.
TextTick(t, max) ==
    /\ mounted
    /\ t \in textTimers
    /\ t.k < max
    /\ LET i == WrapIndex(t.currentIndex, t.length)
       IN  /\ textHighlight' = ParagraphRect(i)
           /\ textTimers' = (textTimers \ {t}) \cup
                  {[t EXCEPT !.currentIndex = i + 1, !.k = t.k + 1]}
    /\ UNCHANGED <<content, isPdf, isDocx, readers, rpCleanup, rpPending>>
    /\ UNCHANGED <<formVars, pnVars, animVars, pvVars, mounted>>

\* The values of Math.random(), as numerators over RandomSteps.
Randoms == 0..(RandomSteps - 1)

\* part_001 lines 187-192: the rectangle for an iframe of clientWidth w and
\* clientHeight h and four values of Math.random().
RandomHighlight(w, h, r) ==
    [top |-> r[1] * (h - 40),
     left |-> r[2] * (w - 200),
     width |-> Px(150) + r[3] * 200,
     height |-> Px(15) + r[4] * 20]

\* part_001 lines 178-193: a tick of PDF timer t, with the size of the
\* iframe at that moment and the four random values.
PdfTick(t, w, h, r) ==
    /\ mounted
    /\ t \in pdfTimers
    /\ IF IframePresent
       THEN /\ pdfHighlight' = RandomHighlight(w, h, r)
            /\ measured' = <<w, h>>
       ELSE UNCHANGED <<pdfHighlight, measured>>
    /\ UNCHANGED <<pdfUrl, pvLoading, pdfTimers, pvCleanup, pvPending>>
    /\ UNCHANGED <<formVars, pnVars, animVars, rpVars, mounted>>

(***************************************************************************)
(* The page: UploadForm with the four components it renders.               *)
(***************************************************************************)

\* No passive effect is scheduled.
NoPending ==
    pnPending = {} /\ ~animPending /\ rpPending = {} /\ pvPending = {}

\* A step A of UploadForm and the commit of the render it causes, which
\* the effects of the previous commit precede.
PageEvent(A) ==
    /\ mounted
    /\ NoPending
    /\ A
    /\ NotificationCommit
    /\ AnimationCommit
    /\ PreviewCommit
    /\ UNCHANGED mounted

\* reader.onload and the commit of the render it causes.
ReaderEvent(text) ==
    /\ mounted
    /\ NoPending
    /\ ReaderLoaded(text)
    /\ UNCHANGED <<formVars, pnVars, animVars, pvVars, mounted>>

\* The passive effects of the last commit run, for every component.
PageFlush ==
    /\ mounted
    /\ ~NoPending
    /\ NotificationEffects
    /\ ticks' = TicksAfterEffects
    /\ AnimationEffects
    /\ PreviewEffects
    /\ UNCHANGED <<formVars, mounted>>

\* Cap on the number of ticks of one progress timer where the progress
\* value is not what is examined.
MaxTimerTicks == 2

PageProgressTick(t) ==
    /\ NoPending
    /\ TickProgress(t, MaxTimerTicks)
    /\ UNCHANGED <<formVars, animVars, rpVars, pvVars, mounted>>

\* The render that a late tick causes runs every scheduled effect first.
PageLateProgressTick(t) ==
    /\ LateTickProgress(t, MaxTimerTicks)
    /\ AnimationEffects
    /\ PreviewEffects
    /\ UNCHANGED <<formVars, mounted>>

\* The page is left: every effect's cleanup runs, nothing is scheduled any more.
PageUnmount ==
    /\ mounted
    /\ mounted' = FALSE
    /\ progressTimers' = ClearInterval(progressTimers, pnCleanup)
    /\ animTimers' = StopTimers(animTimers, animCleanup)
    /\ textTimers' = StopTimers(textTimers, rpCleanup)
    /\ pdfTimers' = StopTimers(pdfTimers, pvCleanup)
    /\ pnCleanup' = {}
    /\ animCleanup' = {}
    /\ rpCleanup' = {}
    /\ pvCleanup' = {}
    /\ pnPending' = {}
    /\ animPending' = FALSE
    /\ rpPending' = {}
    /\ pvPending' = {}
    /\ UNCHANGED <<progress, stage, ticks, currentCriteria>>
    /\ UNCHANGED <<content, isPdf, isDocx, textHighlight, readers>>
    /\ UNCHANGED <<pdfUrl, pvLoading, pdfHighlight, measured, formVars>>

\* Cap on the number of submissions where more than one component runs.
MaxEpisodes == 2

\* A submission.
SubmitOnPage ==
    /\ issued < MaxEpisodes
    /\ PageEvent(handleSubmit)

\* A selection; a text file starts a read, of which MaxReaders can be
\* outstanding.
SelectOnPage(n) ==
    /\ FileExt(n) = <<"t", "x", "t">> => readers < MaxReaders
    /\ PageEvent(handleFileChange(n))

\* A network failure.
FailedToFetch == [isError |-> TRUE, message |-> "Failed to fetch"]

\* The sizes (clientWidth, clientHeight) the iframe is found to have: the
\* container is 500px high (part_001 line 227) and as wide as the card.
Surfaces == {<<400, 500>>, <<800, 500>>}

\* The page with every timer ticking: a PDF, a text file of two lines and
\* a rejected file; success, failure and leaving the page.
PageNext ==
    \/ \E n \in {NamePdf, NameTwoDots, NameExe} : SelectOnPage(n)
    \/ SubmitOnPage
    \/ PageEvent(FetchResolved(1, 200))
    \/ PageEvent(FetchRejected(1, FailedToFetch))
    \/ \E i \in 1..Len(inflight) :
          PageEvent(JsonResolved(i, SuccessBody(inflight[i].file)))
    \/ ReaderEvent(TextContent(2))
    \/ PageFlush
    \/ \E t \in progressTimers : PageProgressTick(t)
    \/ \E t \in progressTimers : PageLateProgressTick(t)
    \/ \E t \in animTimers : AnimationTick(t)
    \/ \E t \in textTimers : TextTick(t, MaxTimerTicks)
    \/ \E t \in pdfTimers : PdfTick(t, 800, 500, <<0, 0, 0, 0>>)
    \/ PageUnmount

SpecPage == Init /\ [][PageNext]_vars

\* The texts a read delivers: the empty one and those of 1..MaxLines lines.
Texts == {EmptyContent} \cup {TextContent(n) : n \in 1..MaxLines}

\* The previews: a file of each accepted type and a rejected one, texts of
\* every length, the ticks of the two highlighters.
PreviewNext ==
    \/ \E n \in {NamePdf, NameDocx, NameTwoDots, NameExe} : SelectOnPage(n)
    \/ SubmitOnPage
    \/ PageEvent(FetchRejected(1, FailedToFetch))
    \/ \E text \in Texts : ReaderEvent(text)
    \/ PageFlush
    \/ \E t \in textTimers : TextTick(t, MaxHighlightTicks)
    \/ \E t \in pdfTimers : PdfTick(t, 800, 500, <<0, 0, 0, 0>>)

SpecPreview == Init /\ [][PreviewNext]_vars

\* The PDF highlighter with every size of the iframe and every value of
\* Math.random().
GeometryNext ==
    \/ SelectOnPage(NamePdf)
    \/ SubmitOnPage
    \/ PageEvent(FetchRejected(1, FailedToFetch))
    \/ PageFlush
    \/ \E t \in pdfTimers, s \in Surfaces, r \in [1..4 -> Randoms] :
          PdfTick(t, s[1], s[2], r)

SpecGeometry == Init /\ [][GeometryNext]_vars

(***************************************************************************)
(* AssessmentResult (assessment-result.tsx): the rendering of the stored   *)
(* result.  A JSON object is a record whose domain holds the properties    *)
(* that are present; texts that the code inspects character by character   *)
(* are sequences of one-character strings.                                 *)
(***************************************************************************)

\* Line 36: the description shown when the payload carries no message.
DefaultFailureMessage == "Unable to process the CV file"

\* Faulty variant of FailureMessage: the payload's message is ignored.
FailureMessage_Ignored(r) == DefaultFailureMessage

\* Line 36: result?.message || "Unable to process the CV file"
FailureMessage(r) ==
    IF "message" \in DOMAIN r /\ r.message # ""
    THEN r.message
    ELSE DefaultFailureMessage

\* Payloads that are not a success: null, {}, a status other than
\* "success" with or without a message, a message without a status.
FailurePayloads ==
    {Null, [of |-> NamePdf], [message |-> "parse error"]}
        \cup {[status |-> st] : st \in {"failure", "error"}}
        \cup {[status |-> st, message |-> msg] :
                st \in {"failure", "error"}, msg \in {"parse error", ""}}

\* A success payload with the given assessment object.
Success(assessment) == [status |-> "success", assessment |-> assessment]

\* Line 50: assessment.detailed_assessment || {}, as Object.entries lists
\* it (line 57): the criteria in the order of the payload, each a record
\* with the name and the properties of the evaluation.
DetailedAssessment(assessment) ==
    IF "detailed_assessment" \in DOMAIN assessment
    THEN assessment.detailed_assessment
    ELSE <<>>

\* Faulty variant of CompareConfidence: ascending.
CompareConfidence_Ascending(a, b) == a.confidence - b.confidence

\* Line 57: the comparator (a, b) => b[1].confidence - a[1].confidence
CompareConfidence(a, b) == b.confidence - a.confidence

\* x put into the sorted sequence after every element that the comparator
\* does not place behind it.
RECURSIVE InsertSorted(_, _)
InsertSorted(sorted, x) ==
    IF sorted = <<>> THEN <<x>>
    ELSE IF CompareConfidence(Head(sorted), x) <= 0
         THEN <<Head(sorted)>> \o InsertSorted(Tail(sorted), x)
         ELSE <<x>> \o sorted

\* Array.prototype.sort with the comparator: the sort is stable.
RECURSIVE SortEntries(_)
SortEntries(entries) ==
    IF entries = <<>> THEN <<>>
    ELSE InsertSorted(SortEntries(SubSeq(entries, 1, Len(entries) - 1)),
                      entries[Len(entries)])

\* Line 57: sortedCriteria
SortedCriteria(assessment) == SortEntries(DetailedAssessment(assessment))

\* Lines 28-40 and 171: the criteria cards rendered, in order; the failure
\* view has none.
RenderedCriteria(r) ==
    IF FailureView(r) THEN <<>> ELSE SortedCriteria(r.assessment)

\* Cap on the number of criteria of a payload.
MaxCriteria == 3

\* The confidences of the payloads, in hundredths.
Confidences == {30, 60, 90}

\* The names of the criteria, by position in the payload.
CriteriaNames == <<"Awards", "Publications", "Leadership", "Salary">>

\* The lists of criteria of the payloads.
CriteriaLists ==
    UNION {{[i \in 1..n |->
                [name |-> CriteriaNames[i], confidence |-> conf[i]]] :
            conf \in [1..n -> Confidences]} : n \in 0..MaxCriteria}

\* "Unknown" (line 45).
TextUnknown == <<"U", "n", "k", "n", "o", "w", "n">>

\* Line 45: assessment.approval_chance || "Unknown"
ApprovalChance(assessment) ==
    IF "approval_chance" \in DOMAIN assessment
           /\ assessment.approval_chance # <<>>
    THEN assessment.approval_chance
    ELSE TextUnknown

\* \d
IsDigit(c) == c \in {"0", "1", "2", "3", "4", "5", "6", "7", "8", "9"}

\* The characters i..j of s are digits, at least one.
Digits(s, i, j) == i <= j /\ \A n \in i..j : IsDigit(s[n])

\* The ways /(\d+)-(\d+)%/ matches s from position i: <<j, k>> when the
\* first group is s[i..j] and the second s[j+2..k].
RangeMatches(s, i) ==
    {m \in (1..Len(s)) \X (1..Len(s)) :
        /\ Digits(s, i, m[1])
        /\ m[1] + 2 <= m[2]
        /\ s[m[1] + 1] = "-"
        /\ Digits(s, m[1] + 2, m[2])
        /\ m[2] + 1 <= Len(s)
        /\ s[m[2] + 1] = "%"}

\* The greatest element of a non-empty set of numbers.
Greatest(S) == CHOOSE x \in S : \A y \in S : y <= x

\* approvalChance.match(/(\d+)-(\d+)%/): null, or the groups of the match
\* that starts leftmost, each group greedy.
RangeMatch(s) ==
    LET starts == {i \in 1..Len(s) : RangeMatches(s, i) # {}}
    IN  IF starts = {} THEN Null
        ELSE LET i == CHOOSE x \in starts : \A y \in starts : x <= y
                 j == Greatest({m[1] : m \in RangeMatches(s, i)})
                 k == Greatest({m[2] : m \in {n \in RangeMatches(s, i) : n[1] = j}})
             IN  [min |-> SubSeq(s, i, j), max |-> SubSeq(s, j + 2, k)]

\* The value of a decimal digit.
DigitValue(c) ==
    CASE c = "0" -> 0 [] c = "1" -> 1 [] c = "2" -> 2 [] c = "3" -> 3
      [] c = "4" -> 4 [] c = "5" -> 5 [] c = "6" -> 6 [] c = "7" -> 7
      [] c = "8" -> 8 [] c = "9" -> 9

\* Number.parseInt on a string of digits.
RECURSIVE ParseInt(_)
ParseInt(digits) ==
    IF digits = <<>> THEN 0
    ELSE 10 * ParseInt(SubSeq(digits, 1, Len(digits) - 1))
             + DigitValue(digits[Len(digits)])

\* approvalChance.includes(word)
Includes(s, word) ==
    \E i \in 1..(Len(s) - Len(word) + 1) :
        SubSeq(s, i, i + Len(word) - 1) = word

TextHigh == <<"H", "i", "g", "h">>

TextMedium == <<"M", "e", "d", "i", "u", "m">>

TextLow == <<"L", "o", "w">>

\* Numbers are held in halves, which makes the division by 2 of line 112
\* exact: the whole number n.
Whole(n) == 2 * n

\* Faulty variant of GetApprovalPercentage: the words are looked for before
\* the range.
GetApprovalPercentage_WordsFirst(approvalChance) ==
    IF Includes(approvalChance, TextHigh) THEN Whole(90)
    ELSE IF Includes(approvalChance, TextMedium) THEN Whole(60)
    ELSE IF Includes(approvalChance, TextLow) THEN Whole(30)
    ELSE LET percentageMatch == RangeMatch(approvalChance)
         IN  IF percentageMatch # Null
             THEN ParseInt(percentageMatch.min) + ParseInt(percentageMatch.max)
             ELSE Whole(50)

\* Lines 108-119: getApprovalPercentage, in halves (the sum of min and max
\* is their mean in halves).
GetApprovalPercentage(approvalChance) ==
    LET percentageMatch == RangeMatch(approvalChance)
    IN  IF percentageMatch # Null
        THEN ParseInt(percentageMatch.min) + ParseInt(percentageMatch.max)
        ELSE IF Includes(approvalChance, TextHigh) THEN Whole(90)
        ELSE IF Includes(approvalChance, TextMedium) THEN Whole(60)
        ELSE IF Includes(approvalChance, TextLow) THEN Whole(30)
        ELSE Whole(50)

\* Line 157: the value of the progress bar of the approval chance.
ApprovalValue(r) == GetApprovalPercentage(ApprovalChance(r.assessment))

\* Cap on the length of the generated approval texts.
MaxApprovalLen == 4

\* Every text of digits, hyphens and per cent signs up to MaxApprovalLen.
RangeTexts ==
    UNION {[1..n -> {"1", "2", "-", "%"}] : n \in 0..MaxApprovalLen}

\* The parts of the worded approval texts.
ApprovalParts ==
    {<<>>, TextHigh, TextMedium, TextLow, <<"h", "i", "g", "h">>, <<"6", "0", "-", "8", "0", "%">>, <<" ", "c", "h", "a", "n", "c", "e">>, <<"5", "-", "1", "0", "-", "2", "0", "%">>}

\* The approval texts of the payloads.
ApprovalTexts ==
    RangeTexts
        \cup {a \o b : a, b \in ApprovalParts}
        \cup {<<"u", "n", "p", "a", "r", "s", "e", "a", "b", "l", "e", " ", "t", "e", "x", "t">>, <<"1", "5", "0", "-", "2", "0", "0", "%">>}

\* The lowercase letters and, at the same positions, their capitals.
LowerLetters ==
    <<"a", "b", "c", "d", "e", "f", "g", "h", "i", "j", "k", "l", "m", "n", "o", "p", "q", "r", "s", "t", "u", "v", "w", "x", "y", "z">>

UpperLetters ==
    <<"A", "B", "C", "D", "E", "F", "G", "H", "I", "J", "K", "L", "M", "N", "O", "P", "Q", "R", "S", "T", "U", "V", "W", "X", "Y", "Z">>

\* c.toUpperCase() of one character.
UpperChar(c) ==
    IF \E i \in 1..Len(LowerLetters) : LowerLetters[i] = c
    THEN UpperLetters[CHOOSE i \in 1..Len(LowerLetters) : LowerLetters[i] = c]
    ELSE c

\* \w: a letter, a digit or the underscore.
IsWordChar(c) ==
    \/ \E i \in 1..Len(LowerLetters) : c \in {LowerLetters[i], UpperLetters[i]}
    \/ IsDigit(c)
    \/ c = "_"

\* \b\w at position i of s: a word character that the start of the text or
\* a non-word character precedes.
WordStart(s, i) ==
    /\ IsWordChar(s[i])
    /\ i = 1 \/ ~IsWordChar(s[i - 1])

\* s.replace(/\b\w/g, (c) => c.toUpperCase())
UpperWordStarts(s) ==
    [i \in 1..Len(s) |-> IF WordStart(s, i) THEN UpperChar(s[i]) ELSE s[i]]

\* s.replace(/_/g, " ")
ReplaceUnderscores(s) ==
    [i \in 1..Len(s) |-> IF s[i] = "_" THEN " " ELSE s[i]]

\* Line 48: fieldType
FieldType(assessment) ==
    IF "field_type" \in DOMAIN assessment
           /\ UpperWordStarts(assessment.field_type) # <<>>
    THEN UpperWordStarts(assessment.field_type)
    ELSE TextUnknown

\* Lines 341 and 355: the label of a fee or of a visa duration.
Label(name) == UpperWordStarts(ReplaceUnderscores(name))

\* The object {}: none of the properties the renderer reads is in its DOMAIN.
EmptyObject == [of |-> "nothing"]

\* Line 53: assessment.visa_requirements || {}
VisaRequirements(assessment) ==
    IF "visa_requirements" \in DOMAIN assessment
    THEN assessment.visa_requirements
    ELSE EmptyObject

\* Object.entries of the property p of the visa requirements (fees,
\* visa_duration): the entries in the order of the payload, none when the
\* property is missing.
RequirementEntries(assessment, p) ==
    IF p \in DOMAIN VisaRequirements(assessment)
    THEN VisaRequirements(assessment)[p]
    ELSE <<>>

\* Lines 335-361: the labels shown in the list of the property p.
Labels(assessment, p) ==
    [i \in 1..Len(RequirementEntries(assessment, p)) |->
        Label(RequirementEntries(assessment, p)[i].name)]

\* Cap on the length of the generated identifiers.
MaxLabelLen == 3

TextStemResearcher ==
    <<"s", "t", "e", "m", "_", "r", "e", "s", "e", "a", "r", "c", "h", "e", "r">>

\* The identifiers of the payloads: every text of letters, underscores and
\* spaces up to MaxLabelLen, and two longer ones.
Identifiers ==
    UNION {[1..n -> {"a", "b", "_", " "}] : n \in 0..MaxLabelLen}
        \cup {TextStemResearcher, <<"f", "i", "l", "i", "n", "g", "_", "f", "e", "e">>}

\* The requirement properties that are lists of named values.
LabelledProperties == {"fees", "visa_duration"}

\* Visa requirements with one named value.
LabelledRequirements ==
    {[fees |-> <<[name |-> id, value |-> "$460"]>>] : id \in Identifiers}
        \cup {[visa_duration |-> <<[name |-> id, value |-> "3 years"]>>] :
                id \in Identifiers}

\* A JSON string, with its text.
JsonString(text) == [type |-> "string", value |-> text]

\* A JSON object with the property flag.
FlagObject(text) == [type |-> "object", flag |-> text]

\* typeof flag
TypeOf(flag) == flag.type

\* Line 52: assessment.red_flags || []
RedFlags(assessment) ==
    IF "red_flags" \in DOMAIN assessment THEN assessment.red_flags ELSE <<>>

\* Faulty variant of FlagText: the object is shown without unwrapping.
FlagText_NotUnwrapped(flag) ==
    IF TypeOf(flag) = "object" THEN "[object Object]" ELSE flag.value

\* Line 288: typeof flag === "object" ? flag.flag : flag
FlagText(flag) ==
    IF TypeOf(flag) = "object" THEN flag.flag ELSE flag.value

\* Lines 287-294: the texts of the alerts of the red flags, in order.
FlagTexts(assessment) ==
    [i \in 1..Len(RedFlags(assessment)) |-> FlagText(RedFlags(assessment)[i])]

\* Cap on the number of red flags of a payload.
MaxFlags == 2

\* The red flags of the payloads, bare or wrapped.
Flags == {JsonString("A"), FlagObject("A"), JsonString("B"), FlagObject("B")}

FlagLists == UNION {[1..n -> Flags] : n \in 0..MaxFlags}

\* Line 51: assessment.application_recommendations || []
Recommendations(assessment) ==
    IF "application_recommendations" \in DOMAIN assessment
    THEN assessment.application_recommendations
    ELSE <<>>

\* Line 269
NoRecommendations == "No specific recommendations available."

\* Line 297
NoRedFlags == "No red flags identified."

\* What a conditional block renders when its condition is false: no element.
Nothing == [blocks |-> {}]

\* Lines 260-270: the content of the recommendations card.
RecommendationsSection(assessment) ==
    IF Len(Recommendations(assessment)) > 0
    THEN [items |-> Recommendations(assessment)]
    ELSE [text |-> NoRecommendations]

\* Lines 285-298: the content of the red flags card.
RedFlagsSection(assessment) ==
    IF Len(RedFlags(assessment)) > 0
    THEN [items |-> FlagTexts(assessment)]
    ELSE [text |-> NoRedFlags]

\* visaRequirements[p] is a non-empty string (lines 310, 317).
HasText(assessment, p) ==
    /\ p \in DOMAIN VisaRequirements(assessment)
    /\ VisaRequirements(assessment)[p] # ""

\* visaRequirements[p] is a list or an object with at least one entry
\* (lines 324, 335, 348).
HasEntries(assessment, p) ==
    /\ p \in DOMAIN VisaRequirements(assessment)
    /\ Len(VisaRequirements(assessment)[p]) > 0

\* Lines 309-362: the content of the requirements card, the blocks by their
\* headings.
RequirementsSection(assessment) ==
    [blocks |->
        {h \in {"Eligibility Threshold"} : HasText(assessment, "eligibility_threshold")}
            \cup {h \in {"Exception"} : HasText(assessment, "exception")}
            \cup {h \in {"Petition Requirements"} : HasEntries(assessment, "petition_requirements")}
            \cup {h \in {"Fees"} : HasEntries(assessment, "fees")}
            \cup {h \in {"Visa Duration"} : HasEntries(assessment, "visa_duration")}]

\* Lines 235-246: the strong examples of a criterion card.
StrongExamplesSection(criterion) ==
    IF "strong_examples_matched" \in DOMAIN criterion
           /\ Len(criterion.strong_examples_matched) > 0
    THEN [items |-> criterion.strong_examples_matched]
    ELSE Nothing

\* The lists of recommendations of the payloads.
RecommendationLists == {<<>>, <<"Publish more">>, <<"Publish more", "Join a jury">>}

\* Visa requirements without labelled values.
PlainRequirements ==
    {EmptyObject, [eligibility_threshold |-> "3 of 8 criteria"], [eligibility_threshold |-> ""], [exception |-> "Major award"], [petition_requirements |-> <<>>], [petition_requirements |-> <<"Form I-129">>], [fees |-> <<>>], [visa_duration |-> <<>>]}

\* Lists of one criterion with its strong examples, none or some.
ExampleLists ==
    {<<[name |-> "Awards", confidence |-> 90, strong_examples_matched |-> ex]>> :
        ex \in {<<>>, <<"Nobel Prize">>}}

\* Line 175: criterion.matches || []
Matches(criterion) ==
    IF "matches" \in DOMAIN criterion THEN criterion.matches ELSE <<>>

\* Line 216: the number of evidence items shown.
EvidenceShown == 3

\* Line 220: the greatest length of an evidence item shown whole.
EvidenceLimit == 300

\* Line 220: "..."
Ellipsis == <<".", ".", ".">>

\* Array.prototype.slice(0, n)
Slice(list, n) == SubSeq(list, 1, IF Len(list) < n THEN Len(list) ELSE n)

\* Faulty variant of Truncate: an item of exactly the limit is cut as well.
Truncate_AtLimit(match) ==
    IF Len(match) >= EvidenceLimit
    THEN SubSeq(match, 1, EvidenceLimit) \o Ellipsis
    ELSE match

\* Line 220: match.length > 300 ? `${match.substring(0, 300)}...` : match
Truncate(match) ==
    IF Len(match) > EvidenceLimit
    THEN SubSeq(match, 1, EvidenceLimit) \o Ellipsis
    ELSE match

\* Lines 216-223: the evidence items shown.
EvidenceItems(criterion) ==
    [i \in 1..Len(Slice(Matches(criterion), EvidenceShown)) |->
        Truncate(Slice(Matches(criterion), EvidenceShown)[i])]

\* Lines 224-228: "+ n more evidence items"
MoreEvidence(criterion) ==
    IF Len(Matches(criterion)) > EvidenceShown
    THEN [count |-> Len(Matches(criterion)) - EvidenceShown]
    ELSE Nothing

\* Lines 210-233: the evidence accordion of a criterion card.
EvidenceSection(criterion) ==
    IF Len(Matches(criterion)) > 0
    THEN [title |-> Len(Matches(criterion)),
          items |-> EvidenceItems(criterion),
          more |-> MoreEvidence(criterion)]
    ELSE Nothing

\* Cap on the number of evidence items of a criterion.
MaxEvidence == 4

\* The lengths of the evidence items: short, at the limit, one beyond it.
EvidenceLengths == {2, EvidenceLimit, EvidenceLimit + 1}

\* The k-th evidence item of a criterion, of length n: the digit k, then
\* the alphabet over and over.
EvidenceText(k, n) ==
    [i \in 1..n |->
        IF i = 1 THEN <<"1", "2", "3", "4", "5", "6", "7", "8", "9">>[k]
        ELSE LowerLetters[((i - 2) % Len(LowerLetters)) + 1]]

\* Lists of one criterion with its evidence.
EvidenceLists ==
    UNION {{<<[name |-> "Awards", confidence |-> 90,
               matches |-> [k \in 1..n |-> EvidenceText(k, len[k])]]>> :
            len \in [1..n -> EvidenceLengths]} : n \in 0..MaxEvidence}

\* The assessments of the success payloads.
Assessments ==
    {[profile_type |-> "researcher"]}
        \cup {[detailed_assessment |-> list] : list \in CriteriaLists}
        \cup {[approval_chance |-> text] : text \in ApprovalTexts}
        \cup {[field_type |-> id] : id \in Identifiers}
        \cup {[visa_requirements |-> req] : req \in LabelledRequirements}
        \cup {[red_flags |-> list] : list \in FlagLists}
        \cup {[application_recommendations |-> list] : list \in RecommendationLists}
        \cup {[visa_requirements |-> req] : req \in PlainRequirements}
        \cup {[detailed_assessment |-> list] : list \in ExampleLists}
        \cup {[detailed_assessment |-> list] : list \in EvidenceLists}

\* The payloads the server answers with.
Payloads == FailurePayloads \cup {Success(a) : a \in Assessments}

\* The form with a response of every shape.
ResultNext ==
    \/ (handleFileChange(NamePdf) /\ UNCHANGED viewVars)
    \/ (handleSubmit /\ UNCHANGED viewVars)
    \/ (FetchResolved(1, 200) /\ UNCHANGED viewVars)
    \/ \E data \in Payloads : (JsonResolved(1, data) /\ UNCHANGED viewVars)

SpecResult == Init /\ [][ResultNext]_vars

(***************************************************************************)
(* Properties of the submission controller.                                *)
(*                                                                         *)
(* lastOp is a history variable: it names the handler segment that ran     *)
(* last (with the candidate name of a selection and the parsed body of a   *)
(* successful response), so "right after operation X" is a state           *)
(* predicate.                                                              *)
(***************************************************************************)

\* The outcomes of a submission that end in the catch block.
FailureOps == {"requestFailed", "networkError", "parseError"}

\* C1: at most one analyze request is outstanding in every reachable state,
\* whatever the interleaving of selections, submits and response arrivals;
\* while one is outstanding the submit control is disabled, so no second
\* request can be issued.
C1_AtMostOneInFlight ==
    /\ Len(inflight) <= 1
    /\ Len(inflight) = 1 => ~SubmitEnabled

\* A request is outstanding, the file was changed after it was issued, and
\* it is not the first request of the session.
C1_Witness ==
    /\ Len(inflight) = 1
    /\ issued = 2
    /\ file # Null
    /\ inflight[1].file # file

\* C2 (as claimed): whenever a result is displayed next to a selected file,
\* the result was computed for that file; a response for a file that is no
\* longer the selected one is never stored.
C2_ResultIsForSelectedFile ==
    (result # Null /\ file # Null) => result.of = file.name

\* C3: right after a failure outcome of a submission (non-ok status,
\* rejected fetch, rejected response.json) isLoading is false, error is
\* set and result is null.
C3_FailureClearsProcessing ==
    lastOp.op \in FailureOps =>
        (~isLoading /\ error # Null /\ result = Null)

\* A malformed body has just been handled for the second submission.
C3_Witness ==
    /\ lastOp.op = "parseError"
    /\ issued = 2
    /\ ~isLoading
    /\ error = Err("Unexpected token < in JSON")

\* Position of the last "." of n, 0 when n holds none.
LastDot(n) ==
    IF \E i \in 1..Len(n) : n[i] = "."
    THEN CHOOSE i \in 1..Len(n) :
            n[i] = "." /\ \A j \in (i + 1)..Len(n) : n[j] # "."
    ELSE 0

\* n has an extension (text after its last ".") and, compared
\* case-insensitively, it is pdf, docx or txt.
HasAllowedExtension(n) ==
    /\ LastDot(n) > 0
    /\ ToLowerCase(SubSeq(n, LastDot(n) + 1, Len(n))) \in AllowedExts

\* C4 (as claimed): the selected file, and the file of every request, has
\* an extension among pdf, docx, txt; a candidate with any other extension,
\* or with none, is rejected with the unsupported-format error.
C4_OnlyAllowedExtensions ==
    /\ file # Null => HasAllowedExtension(file.name)
    /\ \A i \in 1..Len(inflight) : HasAllowedExtension(inflight[i].file.name)
    /\ (lastOp.op = "selectRejected") =>
           (file = Null /\ error = Err(UnsupportedMsg))
    /\ (lastOp.op \in {"selectAccepted", "selectRejected"}) =>
           (lastOp.op = "selectAccepted" <=> HasAllowedExtension(lastOp.name))

\* C5 (as claimed): right after a rejected selection both the file and the
\* result are empty.
C5_RejectClearsFileAndResult ==
    lastOp.op = "selectRejected" => (file = Null /\ result = Null)

\* C6: right after an accepted selection the file is the candidate and both
\* result and error are null, whatever preceded.
C6_AcceptClearsResult ==
    lastOp.op = "selectAccepted" =>
        (file = File(lastOp.name) /\ result = Null /\ error = Null)

\* A new file has been accepted while the request of an earlier submission
\* is still outstanding, after a first submission had completed.
C6_Witness ==
    /\ lastOp.op = "selectAccepted"
    /\ issued = 2
    /\ isLoading
    /\ inflight[1].file # file

\* C7: right after a submit with a selected file, error and result are
\* null, isLoading is true, and exactly one request is outstanding: a POST
\* to <apiUrl>/api/analyze carrying the selected file under cv_file.
C7_SubmitIssuesOneRequest ==
    lastOp.op = "submit" =>
        /\ error = Null
        /\ result = Null
        /\ isLoading
        /\ file # Null
        /\ inflight = << [field |-> "cv_file", file |-> file, method |-> "POST",
                          url |-> <<apiUrl, "/api/analyze">>, pc |-> "fetch"] >>

\* A third submission has just been started, against the non-default URL.
C7_Witness ==
    /\ lastOp.op = "submit"
    /\ issued = 3
    /\ apiUrl = "http://localhost:8000"
    /\ Len(inflight) = 1

\* C8: a submit with no selected file only sets the NoFileSelected error:
\* no request is issued, isLoading stays false, file and result are
\* unchanged.
C8_SubmitWithoutFile ==
    [][(file = Null /\ lastOp'.op = "submitNoFile") =>
          /\ error' = Err(NoFileMsg)
          /\ file' = file
          /\ result' = result
          /\ ~isLoading /\ ~isLoading'
          /\ inflight' = inflight
          /\ inflight' = <<>>
          /\ issued' = issued]_vars

\* Submit without a file while an earlier result is still displayed.
C8_Witness ==
    /\ lastOp.op = "submitNoFile"
    /\ file = Null
    /\ result # Null
    /\ error = Err(NoFileMsg)

ErrorOps == FailureOps \cup {"submitNoFile", "selectRejected"}

\* C10 (as claimed): every step that ends in an error leaves isLoading
\* false and the selected file as it was before the step.
C10_ErrorsKeepFile ==
    [][lastOp'.op \in ErrorOps => (~isLoading' /\ file' = file)]_vars

\* C10 (amended): every submission error (no file selected, non-ok status,
\* rejected fetch, malformed body) leaves isLoading false and the selected
\* file unchanged; a rejected selection is the one error that changes the
\* file (it clears it), and it leaves isLoading as it was.
C10_SubmitErrorsKeepFile ==
    [][/\ lastOp'.op \in (FailureOps \cup {"submitNoFile"}) =>
            (~isLoading' /\ file' = file)
       /\ lastOp'.op = "selectRejected" =>
            (file' = Null /\ isLoading' = isLoading)]_vars

\* A request failed after the file had been changed during the flight.
C10_Witness ==
    /\ lastOp.op = "requestFailed"
    /\ file = File(NameDocx)
    /\ inflight = <<>>
    /\ ~isLoading
    /\ error = Err(StatusMsg(500))

\* C11 (as claimed): right after a submission has completed with anything
\* but a payload whose status is "success" (no file selected, non-ok
\* status, rejected fetch, malformed body, or a parsed body that is null,
\* empty or of another status), the error alert or the "Analysis Failed"
\* card is displayed.
C11_NoSilentFailure ==
    (\/ lastOp.op \in FailureOps \cup {"submitNoFile"}
     \/ (lastOp.op = "success" /\ Status(lastOp.data) # "success"))
        => (AlertShown \/ FailureViewShown)

(***************************************************************************)
(* Properties of the progress simulator (specification SpecProgress).      *)
(***************************************************************************)

\* A step inside one Running episode.
InEpisode == isLoading /\ isLoading' /\ issued' = issued

\* C12: progress always lies between 0 and 100, and no step inside an
\* episode decreases it, however many ticks occur.
C12_ProgressMonotoneBounded ==
    /\ [](~Gt(Zero, progress) /\ ~Gt(progress, Hundred))
    /\ [][InEpisode => ~Gt(progress, progress')]_vars

\* The timer has ticked past the 240 ticks of the target duration and the
\* progress is still 100.
C12_Witness ==
    /\ isLoading
    /\ ticks = MaxTicks
    /\ progress = Hundred

\* The stage the thresholds assign: EXTRACTING (0) up to and including 30,
\* ANALYZING (1) above 30 up to and including 75, FINALIZING (2) above 75.
StageByThreshold(prog) ==
    IF Gt(prog, Percent(75)) THEN 2
    ELSE IF Gt(prog, Percent(30)) THEN 1
    ELSE 0

C14_StageIsFunctionOfProgress ==
    mounted => stage = StageByThreshold(progress)

ProgressTickApplied == ticks' = ticks + 1

AnimationTickApplied == currentCriteria' # currentCriteria

TextTickApplied ==
    \E t \in textTimers : \E u \in textTimers' :
        u.id = t.id /\ u.k = t.k + 1

PdfTickApplied ==
    pdfHighlight' # pdfHighlight /\ pdfHighlight' # InitialPdfHighlight

TickApplied ==
    \/ ProgressTickApplied
    \/ AnimationTickApplied
    \/ TextTickApplied
    \/ PdfTickApplied

\* At most one timer of each kind exists.
AtMostOneTimerEach ==
    /\ Cardinality(progressTimers) <= 1
    /\ Cardinality(animTimers) <= 1
    /\ Cardinality(textTimers) <= 1
    /\ Cardinality(pdfTimers) <= 1

NoTimers ==
    /\ progressTimers = {}
    /\ animTimers = {}
    /\ textTimers = {}
    /\ pdfTimers = {}

\* Once the effects of the commit that ended processing have run, and once
\* the page is left, every timer is cancelled.
CancelledOnExit ==
    ((~isLoading /\ NoPending) \/ ~mounted) => NoTimers

\* Every live timer was started in the current episode.
TimersOfCurrentEpisode ==
    /\ progressTimers \subseteq {issued}
    /\ \A t \in animTimers : t.ep = issued
    /\ \A t \in textTimers : t.ep = issued
    /\ \A t \in pdfTimers : t.ep = issued

HighlightTimerLive == textTimers # {} \/ pdfTimers # {}

\* A document is loaded: a file is selected and, for a text file, there is
\* text to show.
DocumentLoaded ==
    PreviewMounted /\ (isPdf \/ isDocx \/ ~IsEmptyString(content))

\* No file has been selected since the submission.
SelectedBeforeSubmit == lastOp.op \in {"submit", "responseOk"}

C19_HighlightWithinSurface ==
    measured # Null =>
        /\ 0 <= pdfHighlight.left
        /\ pdfHighlight.left + pdfHighlight.width <= Px(measured[1])
        /\ 0 <= pdfHighlight.top
        /\ pdfHighlight.top + pdfHighlight.height <= Px(measured[2])

\* C20: for a text preview of n >= 1 paragraphs, the k-th tick of a run of
\* the highlighter highlights paragraph (k - 1) mod n, which lies in
\* 0..n-1; n is the number of paragraphs of the content shown.
C20_ParagraphCycle ==
    \A t \in textTimers :
        /\ t.length >= 1
        /\ NoPending => t.length = SplitLines(content)
        /\ t.k >= 1 =>
              /\ textHighlight = ParagraphRect((t.k - 1) % t.length)
              /\ textHighlight.paragraph \in 0..(t.length - 1)

\* The fifth tick over three paragraphs has wrapped to the second one.
C20_Witness ==
    \E t \in textTimers :
        /\ t.length = 3
        /\ t.k = 5
        /\ textHighlight = ParagraphRect(1)

(***************************************************************************)
(* Properties of the rendering of the result.                              *)
(***************************************************************************)

\* A response body has just been stored.
PayloadStored == lastOp.op = "success"

\* The payload carries a message to show.
HasMessage(r) == "message" \in DOMAIN r /\ r.message # ""

\* C21 as stated: a payload whose status is not "success" (a missing or
\* malformed one included) renders as the failure view with the payload's
\* message when present and otherwise "processing failed."
C21_FailureDefaultProcessingFailed ==
    (PayloadStored /\ Status(result) # "success") =>
        /\ FailureView(result)
        /\ RenderedCriteria(result) = <<>>
        /\ FailureMessage(result) =
              IF HasMessage(result) THEN result.message ELSE "processing failed."

\* C21, amended: a payload whose status is not "success" (a missing or
\* malformed one included) renders as the failure view, which shows no
\* criteria, with the payload's message when present and otherwise
\* "Unable to process the CV file".
C21_FailureViewMessage ==
    (PayloadStored /\ Status(result) # "success") =>
        /\ FailureView(result)
        /\ RenderedCriteria(result) = <<>>
        /\ FailureMessage(result) =
              IF HasMessage(result)
              THEN result.message
              ELSE "Unable to process the CV file"

\* {status: "failure", message: "parse error"} is stored and shown.
C21_Witness ==
    /\ result = [status |-> "failure", message |-> "parse error"]
    /\ FailureViewShown
    /\ FailureMessage(result) = "parse error"

\* The position of the criterion named n in the list of entries.
PositionOf(entries, n) == CHOOSE i \in 1..Len(entries) : entries[i].name = n

\* C22: the rendered criteria are a permutation of the payload's criteria,
\* in descending order of confidence, criteria of equal confidence in their
\* order in the payload.
C22_CriteriaByDescendingConfidence ==
    (PayloadStored /\ Status(result) = "success") =>
        LET input == DetailedAssessment(result.assessment)
            shown == RenderedCriteria(result)
        IN  /\ Len(shown) = Len(input)
            /\ \A i \in 1..Len(input) : \E j \in 1..Len(shown) :
                  shown[j] = input[i]
            /\ \A i, j \in 1..Len(shown) :
                  i < j =>
                    /\ shown[i].confidence >= shown[j].confidence
                    /\ shown[i].confidence = shown[j].confidence =>
                          PositionOf(input, shown[i].name)
                              < PositionOf(input, shown[j].name)

\* Confidences [0.3, 0.9, 0.6] are shown as [0.9, 0.6, 0.3].
C22_Witness ==
    /\ PayloadStored
    /\ Status(result) = "success"
    /\ "detailed_assessment" \in DOMAIN result.assessment
    /\ Len(result.assessment.detailed_assessment) = 3
    /\ \A i \in 1..3 :
          result.assessment.detailed_assessment[i].confidence = <<30, 90, 60>>[i]
    /\ \A i \in 1..3 :
          RenderedCriteria(result)[i].confidence = <<90, 60, 30>>[i]

\* The text holds a "<low>-<high>%" pattern.
HasRange(text) == \E i \in 1..Len(text) : RangeMatches(text, i) # {}

\* The value (in halves) is the mean of the low and the high of a
\* "<low>-<high>%" pattern of the text.
MeanOfRange(text, value) ==
    \E i \in 1..Len(text) : \E m \in RangeMatches(text, i) :
        value = ParseInt(SubSeq(text, i, m[1]))
                    + ParseInt(SubSeq(text, m[1] + 2, m[2]))

\* The examples of the approval percentage: text and value.
ApprovalExamples ==
    {<<<<"6", "0", "-", "8", "0", "%">>, 70>>, <<<<"H", "i", "g", "h", " ", "c", "h", "a", "n", "c", "e">>, 90>>, <<<<"M", "e", "d", "i", "u", "m">>, 60>>, <<<<"L", "o", "w">>, 30>>, <<<<"u", "n", "p", "a", "r", "s", "e", "a", "b", "l", "e", " ", "t", "e", "x", "t">>, 50>>}

\* C23: the approval percentage follows the priority order: a
\* "<low>-<high>%" pattern gives the mean of low and high; otherwise "High"
\* gives 90, else "Medium" 60, else "Low" 30 (capitalised forms only);
\* otherwise 50; and the five examples have the values stated.
C23_ApprovalPriorityOrder ==
    (PayloadStored /\ Status(result) = "success") =>
        LET text == ApprovalChance(result.assessment)
            value == ApprovalValue(result)
        IN  /\ IF HasRange(text) THEN MeanOfRange(text, value)
               ELSE IF Includes(text, TextHigh) THEN value = Whole(90)
               ELSE IF Includes(text, TextMedium) THEN value = Whole(60)
               ELSE IF Includes(text, TextLow) THEN value = Whole(30)
               ELSE value = Whole(50)
            /\ \A e \in ApprovalExamples :
                  text = e[1] => value = Whole(e[2])

\* "High60-80%" holds a range and the word High: the range wins, 70.
C23_Witness ==
    /\ PayloadStored
    /\ Status(result) = "success"
    /\ ApprovalChance(result.assessment) = <<"H", "i", "g", "h", "6", "0", "-", "8", "0", "%">>
    /\ ApprovalValue(result) = Whole(70)

\* C24: the approval percentage is an integer between 0 and 100, and for a
\* "<low>-<high>%" pattern the mean of low and high rounded to the nearest
\* integer.
C24_ApprovalIntegerInRange ==
    (PayloadStored /\ Status(result) = "success") =>
        LET text == ApprovalChance(result.assessment)
            value == ApprovalValue(result)
        IN  /\ value % 2 = 0
            /\ value \in Whole(0)..Whole(100)
            /\ HasRange(text) =>
                  \E i \in 1..Len(text) : \E m \in RangeMatches(text, i) :
                      value = Whole((ParseInt(SubSeq(text, i, m[1]))
                                  + ParseInt(SubSeq(text, m[1] + 2, m[2]))
                                  + 1) \div 2)

\* The first character of a whitespace- or underscore-delimited word of s is
\* at position i.
DelimitedWordStart(s, i) ==
    /\ s[i] \notin {" ", "_"}
    /\ i = 1 \/ s[i - 1] \in {" ", "_"}

\* shown is the identifier id with every whitespace- or underscore-delimited
\* word title-cased and the underscores as spaces.
TitleCased(id, shown) ==
    /\ Len(shown) = Len(id)
    /\ \A i \in 1..Len(id) :
          shown[i] = IF id[i] = "_" THEN " "
                     ELSE IF DelimitedWordStart(id, i) THEN UpperChar(id[i])
                     ELSE id[i]

\* C25: the field type and the fee and duration labels are displayed with
\* every whitespace- or underscore-delimited word title-cased and the
\* underscores as spaces ("stem_researcher" as "Stem Researcher"); the
\* identifier of the payload is left as it was.
C25_TitleCasedForDisplay ==
    (PayloadStored /\ Status(result) = "success") =>
        /\ "field_type" \in DOMAIN result.assessment =>
              /\ result.assessment.field_type # <<>> =>
                    TitleCased(result.assessment.field_type,
                               FieldType(result.assessment))
              /\ result.assessment.field_type = TextStemResearcher =>
                    FieldType(result.assessment)
                        = <<"S", "t", "e", "m", " ", "R", "e", "s", "e", "a", "r", "c", "h", "e", "r">>
        /\ \A p \in LabelledProperties :
              \A i \in 1..Len(RequirementEntries(result.assessment, p)) :
                  TitleCased(RequirementEntries(result.assessment, p)[i].name,
                             Labels(result.assessment, p)[i])
        /\ result = lastOp.data

\* The text s of a red flag of the payload: of the bare string s or of the
\* object {flag: s}.
SourceText(flag) == IF "flag" \in DOMAIN flag THEN flag.flag ELSE flag.value

\* C26: the normalization of the red flags maps each element, the bare
\* string s or the object {flag: s}, to s; the texts are as many as the
\* flags and in their order (["A", {flag: "B"}] gives ["A", "B"]).
C26_RedFlagsNormalized ==
    (PayloadStored /\ Status(result) = "success") =>
        LET flags == RedFlags(result.assessment)
            texts == FlagTexts(result.assessment)
        IN  /\ Len(texts) = Len(flags)
            /\ \A i \in 1..Len(flags) : texts[i] = SourceText(flags[i])
            /\ flags = <<JsonString("A"), FlagObject("B")>> =>
                  texts = <<"A", "B">>

\* The payload holds ["A", {flag: "B"}], shown as "A", "B".
C26_Witness ==
    /\ PayloadStored
    /\ Status(result) = "success"
    /\ RedFlags(result.assessment) = <<JsonString("A"), FlagObject("B")>>
    /\ FlagTexts(result.assessment) = <<"A", "B">>

\* The section shows an explicit text for the absence of its items.
EmptyState(section) == "text" \in DOMAIN section

\* The criterion has no strong examples: the list is missing or empty.
NoStrongExamples(criterion) ==
    \/ "strong_examples_matched" \notin DOMAIN criterion
    \/ criterion.strong_examples_matched = <<>>

\* The assessment has no visa requirements: the object is missing or empty.
NoVisaRequirements(assessment) ==
    \/ "visa_requirements" \notin DOMAIN assessment
    \/ assessment.visa_requirements = EmptyObject

\* C27: for a success payload every optional section that is missing or
\* empty (recommendations, red flags, visa requirements, strong examples)
\* is rendered as an explicit 'none available' state, never omitted.
C27_MissingSectionsExplicit ==
    (PayloadStored /\ Status(result) = "success") =>
        /\ Recommendations(result.assessment) = <<>> =>
              EmptyState(RecommendationsSection(result.assessment))
        /\ RedFlags(result.assessment) = <<>> =>
              EmptyState(RedFlagsSection(result.assessment))
        /\ NoVisaRequirements(result.assessment) =>
              EmptyState(RequirementsSection(result.assessment))
        /\ \A i \in 1..Len(RenderedCriteria(result)) :
              NoStrongExamples(RenderedCriteria(result)[i]) =>
                  EmptyState(StrongExamplesSection(RenderedCriteria(result)[i]))

\* The evidence items of a section, none when the section is not rendered.
ShownEvidence(section) ==
    IF "items" \in DOMAIN section THEN section.items ELSE <<>>

\* The section shows a count of remaining items.
ShowsRemaining(section) ==
    "more" \in DOMAIN section /\ "count" \in DOMAIN section.more

\* C28: of the n evidence items of a criterion the first min(n, 3) are
\* displayed, in order, each verbatim unless it is longer than 300
\* characters, and then as its first 300 characters followed by an ellipsis;
\* the count n - 3 of the remaining items is shown exactly when n > 3; the
\* list of the payload is unchanged.
C28_EvidenceTruncation ==
    (PayloadStored /\ Status(result) = "success") =>
        /\ \A c \in 1..Len(RenderedCriteria(result)) :
              LET matches == Matches(RenderedCriteria(result)[c])
                  section == EvidenceSection(RenderedCriteria(result)[c])
                  shown == ShownEvidence(section)
                  n == Len(matches)
              IN  /\ Len(shown) = IF n < 3 THEN n ELSE 3
                  /\ \A i \in 1..Len(shown) :
                        IF Len(matches[i]) <= 300
                        THEN shown[i] = matches[i]
                        ELSE /\ Len(shown[i]) = 303
                             /\ SubSeq(shown[i], 1, 300) = SubSeq(matches[i], 1, 300)
                             /\ SubSeq(shown[i], 301, 303) = <<".", ".", ".">>
                  /\ ShowsRemaining(section) <=> n > 3
                  /\ ShowsRemaining(section) => section.more.count = n - 3
        /\ result = lastOp.data

\* Four items of 300, 301, 2 and 2 characters: the first is shown whole, the
\* second cut to 303 characters, the third whole, and "+ 1 more".
C28_Witness ==
    /\ PayloadStored
    /\ Status(result) = "success"
    /\ Len(RenderedCriteria(result)) = 1
    /\ LET matches == Matches(RenderedCriteria(result)[1])
           section == EvidenceSection(RenderedCriteria(result)[1])
       IN  /\ Len(matches) = 4
           /\ Len(matches[1]) = 300
           /\ Len(matches[2]) = 301
           /\ Len(matches[3]) = 2
           /\ Len(section.items) = 3
           /\ section.items[1] = matches[1]
           /\ Len(section.items[2]) = 303
           /\ section.items[3] = matches[3]
           /\ section.more.count = 1

(***************************************************************************)
(* Linearity of the progress (specification SpecProgress).                 *)
(***************************************************************************)

\* The timer of the current episode is running and has ticked n times.
RunningAfter(n) ==
    /\ mounted
    /\ isLoading
    /\ "visible" \notin pnPending
    /\ ticks = n

\* The number of ticks of the target duration: 120 s / 500 ms.
TargetTicks == TotalDuration \div Interval

\* min(n/240, 1) of the full scale, as a progress value.
LinearProgress(n) ==
    IF n < TargetTicks
    THEN [q |-> n * IncrementAmount, r |-> 0]
    ELSE Hundred

\* 100 n / 240 = 1.25 (n / 3) is a double when 3 divides n; the other
\* values are not, and of them only the exact part q is compared.
IsDouble(n) == n % 3 = 0

\* C29: while Running, after n ticks of the episode the progress is
\* min(n/240, 1) of the full scale; it is below 100% before the 240th tick
\* and 100% from the 240th tick on.
C29_LinearProgress ==
    \A n \in 0..MaxTicks :
        RunningAfter(n) =>
            /\ progress.q = LinearProgress(n).q
            /\ IsDouble(n) => progress = LinearProgress(n)
            /\ n < TargetTicks => Gt(Hundred, progress)
            /\ n >= TargetTicks => progress = Hundred

(***************************************************************************)
(* The highlight region at the start of an episode.                        *)
(***************************************************************************)

\* part_001 lines 198 and 232-243: PDFViewer renders the highlight rectangle,
\* at the position it holds, when it is past its loading card and
\* isProcessing is true.
PdfHighlightDisplayed ==
    mounted /\ ViewerMounted /\ ~pvLoading /\ isLoading

\* part_000 lines 190-200: ResumePreview renders the highlight over the
\* text when isProcessing is true; with the initial height 0 it has no
\* extent, and is not counted as a rectangle on display.
TextHighlightDisplayed ==
    mounted /\ TextSurface /\ isLoading /\ textHighlight # InitialTextHighlight

\* C30: the highlight region is cleared on deactivation and is 'no
\* highlight yet' until a geometry sample of the episode has been taken: in
\* the commit that starts a Running episode, which no sample of that episode
\* precedes, no highlight rectangle is displayed, neither the default one nor
\* the last one of a previous episode.
C30_NoHighlightBeforeSample ==
    [][(isLoading' /\ ~isLoading) =>
           (~PdfHighlightDisplayed' /\ ~TextHighlightDisplayed')]_vars

(***************************************************************************)
(* The processing flag and the request (specification Spec).               *)
(***************************************************************************)

\* An analyze request issued by a submit is outstanding: its fetch or the
\* reading of its body has not settled yet.
RequestInFlight == Len(inflight) > 0

\* C31: in every reachable state isLoading is true if and only if an
\* analyze request is in flight: it does not become false while the request
\* of a submit is outstanding and does not stay true without one.
C31_ProcessingIffInFlight == isLoading <=> RequestInFlight

\* The second request has been answered and its body is being read, still
\* with isLoading true, after the file was changed.
C31_Witness ==
    /\ isLoading
    /\ issued = 2
    /\ Len(inflight) = 1
    /\ inflight[1].pc = "json"
    /\ file # Null
    /\ inflight[1].file # file

\* C32: while isLoading is true no result is stored, whatever selections
\* (accepted or rejected), submits and response arrivals have taken place.
C32_NoResultWhileProcessing == isLoading => result = Null

\* A selection has just been rejected while the second request, issued
\* after a first one had succeeded, is outstanding.
C32_Witness ==
    /\ isLoading
    /\ issued = 2
    /\ lastOp.op = "selectRejected"
    /\ file = Null
    /\ result = Null

(***************************************************************************)
(* Termination of a submission (specification SpecFair).                   *)
(***************************************************************************)

\* Exactly one of result and error is set.
ExactlyOneSet == (result # Null) # (error # Null)

\* A step issues a request only as the one request of a submit.
OneRequestPerSubmit ==
    /\ Len(inflight') > Len(inflight) =>
          (lastOp'.op = "submit" /\ Len(inflight') = Len(inflight) + 1)
    /\ issued' # issued => (lastOp'.op = "submit" /\ issued' = issued + 1)
    /\ lastOp'.op = "submit" =>
          (issued' = issued + 1 /\ Len(inflight') = Len(inflight) + 1)

\* C33: every accepted submit terminates: with requests that complete,
\* isLoading eventually becomes false, in the step that makes it false
\* exactly one of result and error ends up set, and exactly one request is
\* issued per submit (none is issued by a retry).
C33_SubmitTerminates ==
    /\ [](isLoading => <>(~isLoading))
    /\ [][(isLoading /\ ~isLoading') => ExactlyOneSet']_vars
    /\ [][OneRequestPerSubmit]_vars

(***************************************************************************)
(* The index of the analyzer animation (specification SpecPage).           *)
(***************************************************************************)

\* A step is a tick of the interval timer of the analyzer animation.
AnimationTicked == \E t \in animTimers : AnimationTick(t)

\* The index is one of the six criteria, and a tick moves it to the next
\* one, the first following the last.
IndexCycles ==
    /\ [](currentCriteria \in 0..5)
    /\ [][AnimationTicked =>
             currentCriteria' = IF currentCriteria = 5 THEN 0
                                ELSE currentCriteria + 1]_vars
    /\ [][currentCriteria' # currentCriteria => AnimationTicked]_vars

\* C34 (as claimed): the index of the current criterion always lies in
\* 0..5, each tick advances it by one modulo 6, and no step taken while the
\* animation is not visible changes it.
C34_IndexFrozenWhileHidden ==
    /\ IndexCycles
    /\ [][~isLoading => currentCriteria' = currentCriteria]_vars

\* C34 (amended): the index of the current criterion always lies in 0..5,
\* each tick advances it by one modulo 6, and while the animation is not
\* visible it changes only by a tick that fires before the cleanup of the
\* commit that hid the animation has run; it is not reset between episodes.
C34_IndexCyclesAndPersists ==
    /\ IndexCycles
    /\ [][(~isLoading /\ currentCriteria' # currentCriteria) =>
             (animPending /\ animTimers # {})]_vars
    /\ [][(~isLoading /\ ~animPending) =>
             currentCriteria' = currentCriteria]_vars

\* The second episode has just started, its timer not yet set, and the
\* index is where the first episode left it, at the last criterion.
C34_Witness ==
    /\ mounted
    /\ isLoading
    /\ issued = 2
    /\ lastOp.op = "submit"
    /\ animPending
    /\ animTimers = {}
    /\ currentCriteria = 5

====
